---- MODULE Spec2Model ----
(***************************************************************************)
(* Warbler: the request handlers of app.py over the tables of models.py.   *)
(*                                                                         *)
(* The persistent store is the four tables users, messages, follows and    *)
(* likes.  Every client (browser) carries a signed session cookie that     *)
(* may hold a user id under CURR_USER_KEY.  For a handler h, action h is    *)
(* the request served with no other request in between: the before_request *)
(* hook, the handler body and the commit, which either applies all writes  *)
(* of the request or none of them.  The actions h_begin, h_get, h_load,    *)
(* h_authenticate, h_flush, g_user_id and respond serve the same request   *)
(* one database round trip at a time, the response last, so that requests  *)
(* of other browsers are served in between; inflight[c] is the request of  *)
(* browser c that is under way.  The response writes the cookie when the   *)
(* handler changed the session (do_login, do_logout, flash): the cookie is *)
(* the session as the request read it with the handler's change.           *)
(* h_outcome is the response the request ends with in the current state:   *)
(*   "ok"            a page is rendered                                    *)
(*   "redirect"      the request succeeded and redirects                   *)
(*   "unauthorized"  flash "Access unauthorized.", redirect to /           *)
(*   "not_found"     the 404 page                                          *)
(*   "form"          the form is presented again                           *)
(*   "forbidden"     flash "You cannot like your own warble.", redirect    *)
(*   "error"         an exception leaves the handler (500)                 *)
(***************************************************************************)
EXTENDS Integers, Sequences, FiniteSets, Bags, TLC

\* ---- bounds of the model -------------------------------------------------
MaxRows == 5         \* ids handed out by users.id and messages.id, plus rows in follows and likes
MaxClock == 1        \* clock values after the first process start
MaxExtra == 1        \* messages stored beyond FeedLimit in the long-timeline states
MaxAccounts == 3     \* signups in the runs about profile updates
MaxTie == 2          \* messages of one timestamp in the long-timeline states

\* ---- program constants ---------------------------------------------------
FeedLimit == 100     \* .limit(100)
TextMax == 140       \* db.String(140)
None == 0            \* Python None; ids of the serial columns start at 1

Clients == {"c1", "c2"}
Idle == [op |-> "idle"]

\* The forms the clients submit.  Usernames and e-mail addresses are
\* numbered: name k stands for one string, distinct for distinct k.
Passwords == {"pw1", "pw2"}
Names == 1..MaxRows
Form(k) == [username |-> k, email |-> k, password |-> IF k % 2 = 1 THEN "pw1" ELSE "pw2"]

\* a signup form may name a username and an e-mail address of different users
SignupForms ==
    { [username |-> a, email |-> b, password |-> p] : a \in Names, b \in Names, p \in Passwords }

LoginForms == { [username |-> k, password |-> p] : k \in Names, p \in Passwords }

TextLens == {0, TextMax, TextMax + 1}
UserIds == 1..MaxRows
MessageIds == 1..MaxRows

VARIABLES
    users,       \* users table: id -> [username, email, password]
    messages,    \* messages table: id -> [user_id, timestamp, textlen]
    follows,     \* follows table: bag of rows <<user_following_id, user_being_followed_id>>
    likes,       \* likes table: set of rows [user_id, message_id]
    session,     \* per client: session[CURR_USER_KEY], None when the key is absent
    nextUserId,  \* users.id sequence
    nextMsgId,   \* messages.id sequence
    bootTime,    \* datetime.utcnow() evaluated when models.py was imported
    now,         \* the clock: what datetime.utcnow() returns at present
    inflight     \* per client: the request of the client that is being served in steps

vars == <<users, messages, follows, likes, session, nextUserId, nextMsgId, bootTime, now, inflight>>

\* ---- helpers -------------------------------------------------------------
Restrict(f, S) == [x \in S |-> f[x]]
Extend(f, k, v) == [x \in DOMAIN f \cup {k} |-> IF x = k THEN v ELSE f[x]]

\* ---- credential store (flask_bcrypt) -------------------------------------
\* variant: the password is stored as it was typed
generate_password_plain(password) == password

generate_password_hash(password) == <<"bcrypt", password>>

\* variant: every password verifies
check_password_any(hashed, password) == TRUE

check_password_hash(hashed, password) == hashed = <<"bcrypt", password>>

\* ---- tables --------------------------------------------------------------
FollowRows == BagToSet(follows)
FollowPair(a, b) == <<a, b>>        \* a follows b
Follows_insert(fl, row) == fl (+) SetToBag({row})
Follows_delete(fl, row) == fl (-) SetToBag({row})

\* User.following / User.followers collections, as loaded by the ORM
following(u) == { r[2] : r \in { x \in FollowRows : x[1] = u } }
followers(u) == { r[1] : r \in { x \in FollowRows : x[2] = u } }
\* User.is_following: `len([user for user in self.following if user == other_user]) == 1`
is_following(self, other_user) ==
    Cardinality({ user \in following(self) : user = other_user }) = 1

\* variant: the same list as is_following
is_followed_by_following(self, other_user) ==
    Cardinality({ user \in following(self) : user = other_user }) = 1

\* User.is_followed_by: `len([user for user in self.followers if user == other_user]) == 1`
is_followed_by(self, other_user) ==
    Cardinality({ user \in followers(self) : user = other_user }) = 1

\* a row of the likes table
LikeRow(u, msg_id) == [user_id |-> u, message_id |-> msg_id]

\* User.likes: messages joined through the likes table
user_likes(u) == { l.message_id : l \in { x \in likes : x.user_id = u } }
\* User.messages
user_messages(u) == { m \in DOMAIN messages : messages[m].user_id = u }

\* variant: the likes table without the unique constraint
Likes_unique_absent(lk, row) == TRUE

\* unique=True on likes.message_id
Likes_unique_ok(lk, row) == \A l \in lk : l.message_id # row.message_id

\* variant: the users table without its unique constraints
Users_unique_absent(us) == TRUE

\* unique=True on users.username and users.email
Users_unique_ok(us) ==
    \A a, b \in DOMAIN us :
        a # b => us[a].username # us[b].username /\ us[a].email # us[b].email

\* the four tables, and a commit that leaves them as st
Store == [users |-> users, messages |-> messages, follows |-> follows, likes |-> likes]
Commit(st) ==
    /\ users' = st.users
    /\ messages' = st.messages
    /\ follows' = st.follows
    /\ likes' = st.likes

\* what MaxRows bounds
Size == (nextUserId - 1) + (nextMsgId - 1) + BagCardinality(follows) + Cardinality(likes)

\* ---- session gate --------------------------------------------------------
\* add_user_to_g: g.user = User.query.get(session[CURR_USER_KEY]) or None
add_user_to_g(c) ==
    IF session[c] # None /\ session[c] \in DOMAIN users THEN session[c] ELSE None

\* variant: the id is not put into the session
do_login_nothing(c, uid) == session

do_login(c, uid) == [session EXCEPT ![c] = uid]
do_logout(c) == [session EXCEPT ![c] = None]

\* User.authenticate over the users table us: the user id, or None (False)
\* for no match
User_authenticate(us, username, password) ==
    LET found == { u \in DOMAIN us : us[u].username = username } IN
    IF found = {} THEN None
    ELSE LET u == CHOOSE x \in found : TRUE IN
         IF check_password_hash(us[u].password, password) THEN u ELSE None

authenticate(username, password) == User_authenticate(users, username, password)

\* ---- a request served in steps --------------------------------------------
\* Requests are served side by side: between two database statements of one
\* request, and between its last statement and its response, any other
\* request can run.  inflight[c] is a request of client c on its way: what
\* it has read so far and, as pc, the step that comes next.

\* before_request: the cookie the request came with, and g.user
Request(c, op) == [op |-> op, sess |-> session[c], user |-> add_user_to_g(c)]

\* The handler has returned or raised.  save tells whether the response sets
\* the session cookie, which it does when the handler has modified the
\* session (flash, do_login, do_logout); cookie is the user key the cookie
\* then carries: the session as the request read it, with the handler's
\* changes.
Answer(r, outcome, save, cookie) ==
    [op |-> r.op, pc |-> "respond", sess |-> r.sess, user |-> r.user,
     outcome |-> outcome, save |-> save, cookie |-> IF save THEN cookie ELSE r.sess]

\* `if not g.user: flash("Access unauthorized.", "danger"); return redirect(...)`,
\* else the handler goes on with what next adds to the request
Gate(r, next) ==
    IF r.user = None THEN Answer(r, "unauthorized", TRUE, r.sess) ELSE r @@ next

\* the request of client c is handler op in front of its step pc
Pending(c, op, pc) ==
    /\ inflight[c] # Idle
    /\ inflight[c].op = op
    /\ inflight[c].pc = pc

\* the response reaches the browser, with the session cookie when the
\* session was modified
respond(c) ==
    /\ inflight[c] # Idle
    /\ inflight[c].pc = "respond"
    /\ session' = IF inflight[c].save
                  THEN [session EXCEPT ![c] = inflight[c].cookie]
                  ELSE session
    /\ inflight' = [inflight EXCEPT ![c] = Idle]
    /\ UNCHANGED <<users, messages, follows, likes, nextUserId, nextMsgId, bootTime, now>>

\* `redirect(f"/users/{g.user.id}...")` after db.session.commit(): the commit
\* has expired g.user, so g.user.id reads the row again and raises
\* ObjectDeletedError when it is gone.  profile has called flash before it;
\* then the 500 response carries the cookie, unless the server propagates
\* exceptions and sends no response (PROPAGATE_EXCEPTIONS, set by debug and
\* testing mode).
g_user_id(c) ==
    \E propagate \in BOOLEAN :
        /\ inflight[c] # Idle
        /\ inflight[c].pc = "g_user_id"
        /\ inflight' = [inflight EXCEPT ![c] =
                LET r == inflight[c]
                    modified == r.op = "profile"
                IN IF r.user \in DOMAIN users
                   THEN Answer(r, "redirect", modified, r.sess)
                   ELSE Answer(r, "error", modified /\ ~propagate, r.sess)]
        /\ UNCHANGED <<users, messages, follows, likes, session, nextUserId, nextMsgId, bootTime, now>>

TypeOK ==
    /\ DOMAIN users \subseteq UserIds
    /\ DOMAIN messages \subseteq MessageIds
    /\ IsABag(follows)
    /\ \A c \in Clients : session[c] \in {None} \cup UserIds
    /\ nextUserId \in 1..(MaxRows + 1)
    /\ nextMsgId \in 1..(MaxRows + 1)
    /\ Size <= MaxRows
    /\ bootTime \in 0..MaxClock
    /\ now \in bootTime..MaxClock
    /\ \A c \in Clients :
          \/ inflight[c] = Idle
          \/ /\ inflight[c].op \in
                    {"signup", "login", "logout", "users_show", "messages_show", "users_likes",
                     "show_following", "users_followers", "add_follow", "stop_following",
                     "profile", "delete_user", "messages_add", "messages_destroy",
                     "toggle_like", "homepage"}
             /\ inflight[c].pc \in
                    {"get", "load", "authenticate", "query", "flush", "do_login", "g_user_id", "respond"}
             /\ inflight[c].sess \in {None} \cup UserIds
             /\ inflight[c].user \in {None} \cup UserIds

Init ==
    /\ users = <<>>
    /\ messages = <<>>
    /\ follows = EmptyBag
    /\ likes = {}
    /\ session = [c \in Clients |-> None]
    /\ nextUserId = 1
    /\ nextMsgId = 1
    /\ bootTime = 0
    /\ now = 0
    /\ inflight = [c \in Clients |-> Idle]

\* ---- POST /signup --------------------------------------------------------
\* User.signup: the row added to the session
User_signup(form) ==
    [username |-> form.username, email |-> form.email,
     password |-> generate_password_hash(form.password)]

\* db.session.commit(): the INSERT passes the unique constraints or raises
\* IntegrityError
signup_commit_ok(us, id, form) == Users_unique_ok(Extend(us, id, User_signup(form)))

signup_outcome(form) ==
    IF signup_commit_ok(users, nextUserId, form)
    THEN "redirect" ELSE "form"       \* IntegrityError: "Username already taken"

\* the tables after the request
signup_store(form) ==
    IF signup_outcome(form) = "redirect"
    THEN [Store EXCEPT !.users = Extend(users, nextUserId, User_signup(form))]
    ELSE Store

\* variant: do_login(user) inside the try block, ahead of the commit
signup_session_before_commit(c, form) == do_login(c, nextUserId)

\* do_login(user) follows the try block
signup_session(c, form) ==
    IF signup_outcome(form) = "redirect" THEN do_login(c, nextUserId) ELSE session

\* the INSERT takes the next value of the users.id sequence before the
\* unique constraints are checked: a refused INSERT has used up an id
signup(c, form) ==
    /\ Size < MaxRows
    /\ Commit(signup_store(form))
    /\ session' = signup_session(c, form)
    /\ nextUserId' = nextUserId + 1
    /\ UNCHANGED <<nextMsgId, bootTime, now, inflight>>

\* the same request in steps, other requests running in between:
\* before_request and User.signup(...), which only adds the object to the
\* session ...
signup_begin(c, form) ==
    /\ inflight[c] = Idle
    /\ inflight' = [inflight EXCEPT ![c] =
                       Request(c, "signup") @@ [pc |-> "flush", form |-> form]]
    /\ UNCHANGED <<users, messages, follows, likes, session, nextUserId, nextMsgId, bootTime, now>>

\* ... db.session.commit(): the INSERT ...
signup_flush_store(c) ==
    IF signup_commit_ok(users, nextUserId, inflight[c].form)
    THEN [Store EXCEPT !.users = Extend(users, nextUserId, User_signup(inflight[c].form))]
    ELSE Store

\* the except branch flashes and presents the form again: the response
\* carries the session as the request read it
signup_flush_next(c) ==
    LET r == inflight[c] IN
    IF signup_commit_ok(users, nextUserId, r.form)
    THEN [op |-> r.op, sess |-> r.sess, user |-> r.user, pc |-> "do_login", id |-> nextUserId]
    ELSE Answer(r, "form", TRUE, r.sess)

signup_flush(c) ==
    /\ Pending(c, "signup", "flush")
    /\ Size < MaxRows
    /\ Commit(signup_flush_store(c))
    /\ nextUserId' = nextUserId + 1
    /\ inflight' = [inflight EXCEPT ![c] = signup_flush_next(c)]
    /\ UNCHANGED <<session, nextMsgId, bootTime, now>>

\* ... and do_login(user): the commit has expired user, so user.id reads the
\* row again and raises ObjectDeletedError when it is gone; the session has
\* not been touched then
signup_do_login(c) ==
    /\ Pending(c, "signup", "do_login")
    /\ inflight' = [inflight EXCEPT ![c] =
            LET r == inflight[c] IN
            IF r.id \in DOMAIN users
            THEN Answer(r, "redirect", TRUE, r.id)
            ELSE Answer(r, "error", FALSE, r.sess)]
    /\ UNCHANGED <<users, messages, follows, likes, session, nextUserId, nextMsgId, bootTime, now>>

\* ---- POST /login ---------------------------------------------------------
login_outcome(form) ==
    IF authenticate(form.username, form.password) # None THEN "redirect" ELSE "form"

\* `if user: do_login(user)`
login_session(c, form) ==
    IF login_outcome(form) = "redirect"
    THEN do_login(c, authenticate(form.username, form.password))
    ELSE session

\* the request served without another request in between
login(c, form) ==
    /\ session' = login_session(c, form)
    /\ UNCHANGED <<users, messages, follows, likes, nextUserId, nextMsgId, bootTime, now, inflight>>

\* the same request in steps: before_request ...
login_begin(c, form) ==
    /\ inflight[c] = Idle
    /\ inflight' = [inflight EXCEPT ![c] =
                       Request(c, "login") @@ [pc |-> "authenticate", form |-> form]]
    /\ UNCHANGED <<users, messages, follows, likes, session, nextUserId, nextMsgId, bootTime, now>>

\* ... and User.authenticate(...): do_login(user) and flash, or
\* flash("Invalid credentials.") alone, which has the response carry the
\* session as the request read it
login_authenticate_next(c) ==
    LET r == inflight[c]
        user == authenticate(r.form.username, r.form.password)
    IN IF user # None
       THEN Answer(r, "redirect", TRUE, user)
       ELSE Answer(r, "form", TRUE, r.sess)

login_authenticate(c) ==
    /\ Pending(c, "login", "authenticate")
    /\ inflight' = [inflight EXCEPT ![c] = login_authenticate_next(c)]
    /\ UNCHANGED <<users, messages, follows, likes, session, nextUserId, nextMsgId, bootTime, now>>

\* ---- GET /logout ---------------------------------------------------------
\* the request served without another request in between
logout(c) ==
    /\ session' = do_logout(c)
    /\ UNCHANGED <<users, messages, follows, likes, nextUserId, nextMsgId, bootTime, now, inflight>>

\* the same request up to its response: flash and do_logout()
logout_begin(c) ==
    /\ inflight[c] = Idle
    /\ inflight' = [inflight EXCEPT ![c] = Answer(Request(c, "logout"), "redirect", TRUE, None)]
    /\ UNCHANGED <<users, messages, follows, likes, session, nextUserId, nextMsgId, bootTime, now>>

\* ---- GET /users/<id> ------------------------------------------------------
\* user = User.query.get_or_404(user_id); no session gate
users_show_outcome(c, user_id) ==
    IF user_id \notin DOMAIN users THEN "not_found" ELSE "ok"

users_show(c, user_id) ==
    /\ users_show_outcome(c, user_id) \in {"not_found", "ok"}
    /\ UNCHANGED vars

\* the same request in steps: before_request ...
users_show_begin(c, user_id) ==
    /\ inflight[c] = Idle
    /\ inflight' = [inflight EXCEPT ![c] =
                       Request(c, "users_show") @@ [pc |-> "get", user_id |-> user_id]]
    /\ UNCHANGED <<users, messages, follows, likes, session, nextUserId, nextMsgId, bootTime, now>>

\* ---- GET /messages/<id> ---------------------------------------------------
\* msg = Message.query.get(message_id), which may be None, is handed to the
\* template as it is: the page is rendered for None or the template raises,
\* the handler itself never answers 404
messages_show_outcomes(c, message_id) ==
    IF message_id \in DOMAIN messages THEN {"ok"} ELSE {"ok", "error"}

messages_show(c, message_id) ==
    /\ \E o \in messages_show_outcomes(c, message_id) : o \in {"ok", "error"}
    /\ UNCHANGED vars

\* the same request in steps: before_request ...
messages_show_begin(c, message_id) ==
    /\ inflight[c] = Idle
    /\ inflight' = [inflight EXCEPT ![c] =
                       Request(c, "messages_show") @@ [pc |-> "get", message_id |-> message_id]]
    /\ UNCHANGED <<users, messages, follows, likes, session, nextUserId, nextMsgId, bootTime, now>>

\* ... and Message.query.get(message_id) with the template
messages_show_get(c) ==
    /\ Pending(c, "messages_show", "get")
    /\ \E o \in messages_show_outcomes(c, inflight[c].message_id) :
           inflight' = [inflight EXCEPT ![c] = Answer(inflight[c], o, FALSE, None)]
    /\ UNCHANGED <<users, messages, follows, likes, session, nextUserId, nextMsgId, bootTime, now>>

\* ---- GET /users/<id>/likes ------------------------------------------------
\* user = get_or_404(user_id); `if g.user:` has no else branch, so without a
\* user the view returns None, which is not a response.
users_likes_outcome(c, user_id) ==
    IF user_id \notin DOMAIN users THEN "not_found"
    ELSE IF add_user_to_g(c) # None THEN "ok"
    ELSE "error"

users_likes(c, user_id) ==
    /\ users_likes_outcome(c, user_id) \in {"not_found", "ok", "error"}
    /\ UNCHANGED vars

\* the same request in steps: before_request ...
users_likes_begin(c, user_id) ==
    /\ inflight[c] = Idle
    /\ inflight' = [inflight EXCEPT ![c] =
                       Request(c, "users_likes") @@ [pc |-> "get", user_id |-> user_id]]
    /\ UNCHANGED <<users, messages, follows, likes, session, nextUserId, nextMsgId, bootTime, now>>

\* ---- GET /users/<id>/following -------------------------------------------
show_following_outcome(c, user_id) ==
    IF add_user_to_g(c) = None THEN "unauthorized"
    ELSE IF user_id \notin DOMAIN users THEN "not_found"
    ELSE "ok"

show_following(c, user_id) ==
    /\ show_following_outcome(c, user_id) \in {"unauthorized", "not_found", "ok"}
    /\ UNCHANGED vars

\* the same request in steps: before_request and the gate ...
show_following_begin(c, user_id) ==
    /\ inflight[c] = Idle
    /\ inflight' = [inflight EXCEPT ![c] =
                       Gate(Request(c, "show_following"), [pc |-> "get", user_id |-> user_id])]
    /\ UNCHANGED <<users, messages, follows, likes, session, nextUserId, nextMsgId, bootTime, now>>

\* ---- GET /users/<id>/followers -------------------------------------------
users_followers_outcome(c, user_id) ==
    IF add_user_to_g(c) = None THEN "unauthorized"
    ELSE IF user_id \notin DOMAIN users THEN "not_found"
    ELSE "ok"

users_followers(c, user_id) ==
    /\ users_followers_outcome(c, user_id) \in {"unauthorized", "not_found", "ok"}
    /\ UNCHANGED vars

\* the same request in steps: before_request and the gate ...
users_followers_begin(c, user_id) ==
    /\ inflight[c] = Idle
    /\ inflight' = [inflight EXCEPT ![c] =
                       Gate(Request(c, "users_followers"), [pc |-> "get", user_id |-> user_id])]
    /\ UNCHANGED <<users, messages, follows, likes, session, nextUserId, nextMsgId, bootTime, now>>

\* ---- the user pages: the lookup of the user ------------------------------
\* Query.get returns an object the session of the request has loaded (here
\* g.user) without a SELECT; any other id is looked up in the table
Query_get(r, id, table) == id = r.user \/ id \in DOMAIN table

\* ... and User.query.get_or_404(user_id) with what follows it in users_show,
\* users_likes, show_following and users_followers
user_get_next(c) ==
    LET r == inflight[c] IN
    IF ~Query_get(r, r.user_id, users) THEN Answer(r, "not_found", FALSE, None)
    ELSE IF r.op = "users_likes" /\ r.user = None THEN Answer(r, "error", FALSE, None)
    ELSE Answer(r, "ok", FALSE, None)

user_get(c) ==
    /\ inflight[c] # Idle
    /\ inflight[c].op \in {"users_show", "users_likes", "show_following", "users_followers"}
    /\ inflight[c].pc = "get"
    /\ inflight' = [inflight EXCEPT ![c] = user_get_next(c)]
    /\ UNCHANGED <<users, messages, follows, likes, session, nextUserId, nextMsgId, bootTime, now>>

\* ---- POST /users/follow/<id> ---------------------------------------------
\* g.user.following.append(followed_user); commit.  An object that is
\* already in the loaded collection is not in the collection's added
\* history, so the flush writes no row for it.
add_follow_outcome(c, follow_id) ==
    IF add_user_to_g(c) = None THEN "unauthorized"
    ELSE IF follow_id \notin DOMAIN users THEN "not_found"
    ELSE "redirect"

\* variant: a row is written for every append
add_follow_store_every_append(c, follow_id) ==
    IF add_follow_outcome(c, follow_id) = "redirect"
    THEN [Store EXCEPT !.follows = Follows_insert(follows, FollowPair(add_user_to_g(c), follow_id))]
    ELSE Store

\* the tables after the request
add_follow_store(c, follow_id) ==
    IF add_follow_outcome(c, follow_id) = "redirect" /\ follow_id \notin following(add_user_to_g(c))
    THEN [Store EXCEPT !.follows = Follows_insert(follows, FollowPair(add_user_to_g(c), follow_id))]
    ELSE Store

add_follow(c, follow_id) ==
    /\ add_follow_store(c, follow_id) # Store => Size < MaxRows
    /\ Commit(add_follow_store(c, follow_id))
    /\ UNCHANGED <<session, nextUserId, nextMsgId, bootTime, now, inflight>>

\* ---- POST /users/stop-following/<id> -------------------------------------
\* followed_user = User.query.get(id) may be None; list.remove raises
\* ValueError when its argument is not in g.user.following.
stop_following_outcome(c, follow_id) ==
    IF add_user_to_g(c) = None THEN "unauthorized"
    ELSE IF follow_id \notin following(add_user_to_g(c)) THEN "error"
    ELSE "redirect"

stop_following_store(c, follow_id) ==
    IF stop_following_outcome(c, follow_id) = "redirect"
    THEN [Store EXCEPT !.follows = Follows_delete(follows, FollowPair(add_user_to_g(c), follow_id))]
    ELSE Store

stop_following(c, follow_id) ==
    /\ Commit(stop_following_store(c, follow_id))
    /\ UNCHANGED <<session, nextUserId, nextMsgId, bootTime, now, inflight>>

\* ---- follow requests in steps ----------------------------------------------
\* variant: the follows table without its primary key
Follows_pk_absent(fl, row) == TRUE

\* primary key (user_being_followed_id, user_following_id)
Follows_pk_ok(fl, row) == CopiesIn(row, fl) = 0

\* The flush of the pending change of g.user.following against the table fl:
\* the INSERT must pass the primary key and both foreign keys; the DELETE
\* must match its row; a collection without a change writes nothing.
Follows_flush_ok(fl, kind, row) ==
    IF kind = "insert"
    THEN /\ Follows_pk_ok(fl, row)
         /\ row[1] \in DOMAIN users
         /\ row[2] \in DOMAIN users
    ELSE IF kind = "delete" THEN CopiesIn(row, fl) >= 1
    ELSE TRUE

\* The follows table after the commit; a rejected commit is rolled back.
Follows_flush(fl, kind, row) ==
    IF ~Follows_flush_ok(fl, kind, row) THEN fl
    ELSE IF kind = "insert" THEN Follows_insert(fl, row)
    ELSE IF kind = "delete" THEN Follows_delete(fl, row)
    ELSE fl

\* add_follow: before_request and the gate ...
add_follow_begin(c, follow_id) ==
    /\ inflight[c] = Idle
    /\ inflight' = [inflight EXCEPT ![c] =
                       Gate(Request(c, "add_follow"), [pc |-> "get", follow_id |-> follow_id])]
    /\ UNCHANGED <<users, messages, follows, likes, session, nextUserId, nextMsgId, bootTime, now>>

\* ... followed_user = User.query.get_or_404(follow_id) ...
add_follow_get(c) ==
    /\ Pending(c, "add_follow", "get")
    /\ inflight' = [inflight EXCEPT ![c] =
            LET r == inflight[c] IN
            IF Query_get(r, r.follow_id, users)
            THEN [r EXCEPT !.pc = "load"]
            ELSE Answer(r, "not_found", FALSE, None)]
    /\ UNCHANGED <<users, messages, follows, likes, session, nextUserId, nextMsgId, bootTime, now>>

\* ... g.user.following is loaded and followed_user appended: the append is
\* pending unless the loaded collection holds the user already ...
add_follow_load(c) ==
    /\ Pending(c, "add_follow", "load")
    /\ inflight' = [inflight EXCEPT ![c] =
            LET r == inflight[c] IN
            [op |-> r.op, sess |-> r.sess, user |-> r.user, pc |-> "flush",
             kind |-> IF r.follow_id \in following(r.user) THEN "none" ELSE "insert",
             row |-> FollowPair(r.user, r.follow_id)]]
    /\ UNCHANGED <<users, messages, follows, likes, session, nextUserId, nextMsgId, bootTime, now>>

\* stop_following: before_request and the gate ...
stop_following_begin(c, follow_id) ==
    /\ inflight[c] = Idle
    /\ inflight' = [inflight EXCEPT ![c] =
                       Gate(Request(c, "stop_following"), [pc |-> "get", follow_id |-> follow_id])]
    /\ UNCHANGED <<users, messages, follows, likes, session, nextUserId, nextMsgId, bootTime, now>>

\* ... followed_user = User.query.get(follow_id), which may be None ...
stop_following_get(c) ==
    /\ Pending(c, "stop_following", "get")
    /\ inflight' = [inflight EXCEPT ![c] =
            LET r == inflight[c] IN
            [r EXCEPT !.pc = "load"] @@ [found |-> Query_get(r, r.follow_id, users)]]
    /\ UNCHANGED <<users, messages, follows, likes, session, nextUserId, nextMsgId, bootTime, now>>

\* ... g.user.following is loaded and followed_user removed: list.remove
\* raises ValueError when its argument is not in the list ...
stop_following_load(c) ==
    /\ Pending(c, "stop_following", "load")
    /\ inflight' = [inflight EXCEPT ![c] =
            LET r == inflight[c] IN
            IF r.found /\ r.follow_id \in following(r.user)
            THEN [op |-> r.op, sess |-> r.sess, user |-> r.user, pc |-> "flush",
                  kind |-> "delete", row |-> FollowPair(r.user, r.follow_id)]
            ELSE Answer(r, "error", FALSE, None)]
    /\ UNCHANGED <<users, messages, follows, likes, session, nextUserId, nextMsgId, bootTime, now>>

\* ... db.session.commit() of either request; the redirect to
\* /users/<g.user.id>/following follows it
follow_flush_next(c) ==
    LET r == inflight[c] IN
    IF Follows_flush_ok(follows, r.kind, r.row)
    THEN [op |-> r.op, sess |-> r.sess, user |-> r.user, pc |-> "g_user_id"]
    ELSE Answer(r, "error", FALSE, None)

follow_flush(c) ==
    /\ inflight[c] # Idle
    /\ inflight[c].op \in {"add_follow", "stop_following"}
    /\ inflight[c].pc = "flush"
    /\ follows' = Follows_flush(follows, inflight[c].kind, inflight[c].row)
    /\ BagCardinality(follows') > BagCardinality(follows) => Size < MaxRows
    /\ inflight' = [inflight EXCEPT ![c] = follow_flush_next(c)]
    /\ UNCHANGED <<users, messages, likes, session, nextUserId, nextMsgId, bootTime, now>>

\* ---- POST /users/profile -------------------------------------------------
\* valid stands for form.validate_on_submit(); username and email stand for
\* all fields the handler assigns (image_url, header_image_url and bio are
\* assigned in the same block and carry no constraint)
profile_update(g_user, form) ==
    [users EXCEPT ![g_user].username = form.username, ![g_user].email = form.email]

profile_outcome(c, form, valid) ==
    LET g_user == add_user_to_g(c) IN
    IF g_user = None THEN "unauthorized"
    ELSE IF ~valid THEN "form"
    ELSE IF authenticate(users[g_user].username, form.password) = None THEN "invalid_password"
    ELSE IF Users_unique_ok(profile_update(g_user, form)) THEN "redirect"
    ELSE "error"                      \* IntegrityError at commit, not caught

profile_store(c, form, valid) ==
    IF profile_outcome(c, form, valid) = "redirect"
    THEN [Store EXCEPT !.users = profile_update(add_user_to_g(c), form)]
    ELSE Store

profile(c, form, valid) ==
    /\ Commit(profile_store(c, form, valid))
    /\ UNCHANGED <<session, nextUserId, nextMsgId, bootTime, now, inflight>>

\* the same request in steps, other requests running in between:
\* before_request, which loads g.user with its attributes, the gate and
\* form.validate_on_submit() ...
profile_begin(c, form, valid) ==
    /\ inflight[c] = Idle
    /\ inflight' = [inflight EXCEPT ![c] =
            LET r == Request(c, "profile") IN
            IF r.user = None THEN Answer(r, "unauthorized", TRUE, r.sess)
            ELSE IF ~valid THEN Answer(r, "form", FALSE, None)
            ELSE r @@ [pc |-> "authenticate", form |-> form, loaded |-> users[r.user]]]
    /\ UNCHANGED <<users, messages, follows, likes, session, nextUserId, nextMsgId, bootTime, now>>

\* ... User.authenticate(g.user.username, password): the SELECT looks for
\* the username g.user was loaded with, in the table as it is now.  A row
\* of g.user's own id comes back as the object the request has loaded; a
\* row of another user comes back with that user's password.
profile_authenticate_ok(c) ==
    LET r == inflight[c]
        found == { u \in DOMAIN users : users[u].username = r.loaded.username }
    IN /\ found # {}
       /\ LET u == CHOOSE x \in found : TRUE
              hashed == IF u = r.user THEN r.loaded.password ELSE users[u].password
          IN check_password_hash(hashed, r.form.password)

\* Only the attributes whose new value differs from the loaded one are
\* pending.  Without a match: flash("invalid password") and the redirect.
profile_authenticate(c) ==
    /\ Pending(c, "profile", "authenticate")
    /\ inflight' = [inflight EXCEPT ![c] =
            LET r == inflight[c] IN
            IF profile_authenticate_ok(c)
            THEN [op |-> r.op, sess |-> r.sess, user |-> r.user, pc |-> "flush", form |-> r.form,
                  cols |-> { k \in {"username", "email"} : r.loaded[k] # r.form[k] }]
            ELSE Answer(r, "invalid_password", TRUE, r.sess)]
    /\ UNCHANGED <<users, messages, follows, likes, session, nextUserId, nextMsgId, bootTime, now>>

\* UPDATE users SET <pending columns> WHERE id = <user>
profile_flush_update(us, u, form, cols) ==
    [us EXCEPT ![u] = [k \in DOMAIN us[u] |-> IF k \in cols THEN form[k] ELSE us[u][k]]]

\* ... db.session.commit(): nothing pending, nothing to write; an UPDATE
\* that matches no row raises StaleDataError, one that repeats a username
\* or an e-mail address raises IntegrityError ...
profile_flush_ok(c) ==
    LET r == inflight[c] IN
    \/ r.cols = {}
    \/ /\ r.user \in DOMAIN users
       /\ Users_unique_ok(profile_flush_update(users, r.user, r.form, r.cols))

profile_flush_store(c) ==
    LET r == inflight[c] IN
    IF profile_flush_ok(c) /\ r.cols # {}
    THEN [Store EXCEPT !.users = profile_flush_update(users, r.user, r.form, r.cols)]
    ELSE Store

\* ... flash("Profile updated successfully!") and the redirect to
\* /users/<g.user.id> follow the commit
profile_flush(c) ==
    /\ Pending(c, "profile", "flush")
    /\ Commit(profile_flush_store(c))
    /\ inflight' = [inflight EXCEPT ![c] =
            LET r == inflight[c] IN
            IF profile_flush_ok(c)
            THEN [op |-> r.op, sess |-> r.sess, user |-> r.user, pc |-> "g_user_id"]
            ELSE Answer(r, "error", FALSE, None)]
    /\ UNCHANGED <<session, nextUserId, nextMsgId, bootTime, now>>

\* ---- POST /users/delete --------------------------------------------------
\* db.session.delete(g.user) and the flush it causes:
\*  - User.messages has no delete cascade and no passive_deletes: the flush
\*    sets messages.user_id to NULL for the user's messages, which the
\*    NOT NULL constraint rejects;
\*  - following and followers are two unlinked relationships over the same
\*    secondary table: each deletes the rows of its collection, and a row
\*    that is in both (the user follows itself) is deleted twice, the
\*    second DELETE matching no row;
\*  - the rows of User.likes are deleted from the likes table.
delete_user_outcome(c) ==
    LET g_user == add_user_to_g(c) IN
    IF g_user = None THEN "unauthorized"
    ELSE IF user_messages(g_user) = {} /\ g_user \notin following(g_user) THEN "redirect"
    ELSE "error"

delete_user_store(c) ==
    LET g_user == add_user_to_g(c) IN
    IF delete_user_outcome(c) = "redirect"
    THEN [Store EXCEPT
            !.users = Restrict(users, DOMAIN users \ {g_user}),
            !.follows = [r \in { x \in FollowRows : x[1] # g_user /\ x[2] # g_user } |-> follows[r]],
            !.likes = { l \in likes : l.user_id # g_user }]
    ELSE Store

\* do_logout() comes before the commit: the key is deleted from the session
\* whether or not the commit succeeds.  When the commit raises, the emptied
\* session reaches the browser with the 500 response; only a server that
\* propagates exceptions instead of answering (PROPAGATE_EXCEPTIONS, set by
\* debug and testing mode) sends no response and so no cookie.
delete_user_session(c, propagate) ==
    IF delete_user_outcome(c) = "unauthorized" THEN session
    ELSE IF delete_user_outcome(c) = "error" /\ propagate THEN session
    ELSE do_logout(c)

delete_user(c) ==
    \E propagate \in BOOLEAN :
        /\ Commit(delete_user_store(c))
        /\ session' = delete_user_session(c, propagate)
        /\ UNCHANGED <<nextUserId, nextMsgId, bootTime, now, inflight>>

\* the same request in steps, other requests running in between:
\* before_request, the gate, do_logout() and db.session.delete(g.user) ...
delete_user_begin(c) ==
    /\ inflight[c] = Idle
    /\ inflight' = [inflight EXCEPT ![c] =
                       Gate(Request(c, "delete_user"),
                            [pc |-> "load", rel |-> "messages",
                             msgs |-> {}, fwers |-> {}, fwing |-> {}, lks |-> {}])]
    /\ UNCHANGED <<users, messages, follows, likes, session, nextUserId, nextMsgId, bootTime, now>>

\* ... db.session.commit(): the flush first reads the collections of the
\* user, one SELECT per relationship, in the order User declares them
\* (messages, followers, following, likes); rel is the relationship the
\* next SELECT reads ...
delete_user_load(c) ==
    /\ Pending(c, "delete_user", "load")
    /\ inflight' = [inflight EXCEPT ![c] =
            LET r == inflight[c] IN
            CASE r.rel = "messages" ->
                     [r EXCEPT !.msgs = user_messages(r.user), !.rel = "followers"]
              [] r.rel = "followers" ->
                     [r EXCEPT !.fwers = followers(r.user), !.rel = "following"]
              [] r.rel = "following" ->
                     [r EXCEPT !.fwing = following(r.user), !.rel = "likes"]
              [] r.rel = "likes" ->
                     [r EXCEPT !.lks = user_likes(r.user), !.pc = "flush"]]
    /\ UNCHANGED <<users, messages, follows, likes, session, nextUserId, nextMsgId, bootTime, now>>

\* ... and then writes its statements for the loaded collections:
\* UPDATE messages SET user_id = NULL for each loaded message (refused);
\* one DELETE per loaded follows and likes row, each of which must match
\* its row, so that the row of a user who follows themself, loaded in both
\* collections, is deleted twice and the second DELETE matches nothing;
\* DELETE FROM users, for which a missing row is only a warning
delete_user_flush_ok(c) ==
    LET r == inflight[c] IN
    /\ r.msgs = {}
    /\ ~(r.user \in r.fwing /\ r.user \in r.fwers)
    /\ \A x \in r.fwing : FollowPair(r.user, x) \in FollowRows
    /\ \A y \in r.fwers : FollowPair(y, r.user) \in FollowRows
    /\ \A m \in r.lks : LikeRow(r.user, m) \in likes

\* the rows that were not loaded go by ON DELETE CASCADE
delete_user_flush_store(c) ==
    LET u == inflight[c].user
        kept == { m \in DOMAIN messages : messages[m].user_id # u }
    IN IF delete_user_flush_ok(c)
       THEN [users |-> Restrict(users, DOMAIN users \ {u}),
             messages |-> Restrict(messages, kept),
             follows |-> [r \in { x \in FollowRows : x[1] # u /\ x[2] # u } |-> follows[r]],
             likes |-> { l \in likes : l.user_id # u /\ l.message_id \in kept }]
       ELSE Store

\* do_logout() ran on the session the request came with: the response
\* carries the session without the user key, the redirect to /signup as
\* well as the 500 response
delete_user_flush(c) ==
    \E propagate \in BOOLEAN :
        /\ Pending(c, "delete_user", "flush")
        /\ Commit(delete_user_flush_store(c))
        /\ inflight' = [inflight EXCEPT ![c] =
                LET r == inflight[c] IN
                IF delete_user_flush_ok(c)
                THEN Answer(r, "redirect", TRUE, None)
                ELSE Answer(r, "error", ~propagate, None)]
        /\ UNCHANGED <<session, nextUserId, nextMsgId, bootTime, now>>

\* ---- POST /messages/new --------------------------------------------------
\* form.validate_on_submit() of MessageForm: the text is present and short enough
MessageForm_valid(textlen) == textlen >= 1 /\ textlen <= TextMax

\* the text column: db.String(140), which the database enforces at the INSERT
Message_text_ok(textlen) == textlen <= TextMax

\* variant: the user_id column without NOT NULL and without its foreign key
Message_user_unconstrained(us, user_id) == TRUE

\* the user_id column: nullable=False, ForeignKey('users.id')
Message_user_ok(us, user_id) == user_id # None /\ user_id \in DOMAIN us

\* the INSERT of a message row at db.session.commit()
Message_commit_ok(us, row) == Message_text_ok(row.textlen) /\ Message_user_ok(us, row.user_id)

\* Message(text=form.text.data) appended to g.user.messages
Message_new(g_user, textlen) == [user_id |-> g_user, timestamp |-> bootTime, textlen |-> textlen]

messages_add_outcome(c, textlen) ==
    IF add_user_to_g(c) = None THEN "unauthorized"
    ELSE IF ~MessageForm_valid(textlen) THEN "form"
    ELSE IF ~Message_commit_ok(users, Message_new(add_user_to_g(c), textlen))
         THEN "error"                 \* DataError / IntegrityError at commit, not caught
    ELSE "redirect"

\* variant: the message is appended and committed without
\* `if form.validate_on_submit()`
messages_add_store_unvalidated(c, textlen) ==
    IF add_user_to_g(c) # None /\ Message_text_ok(textlen)
    THEN [Store EXCEPT !.messages =
            Extend(messages, nextMsgId,
                   [user_id |-> add_user_to_g(c), timestamp |-> bootTime, textlen |-> textlen])]
    ELSE Store

\* Message(text=...) appended to g.user.messages; timestamp takes the column default
messages_add_store(c, textlen) ==
    IF messages_add_outcome(c, textlen) = "redirect"
    THEN [Store EXCEPT !.messages =
            Extend(messages, nextMsgId,
                   [user_id |-> add_user_to_g(c), timestamp |-> bootTime, textlen |-> textlen])]
    ELSE Store

messages_add(c, textlen) ==
    /\ messages_add_store(c, textlen) # Store => Size < MaxRows
    /\ Commit(messages_add_store(c, textlen))
    /\ nextMsgId' = IF messages_add_store(c, textlen) # Store THEN nextMsgId + 1 ELSE nextMsgId
    /\ UNCHANGED <<session, nextUserId, bootTime, now, inflight>>

\* the same request in steps, other requests running in between:
\* before_request, the gate, form.validate_on_submit() and the append of
\* the new Message to g.user.messages ...
messages_add_begin(c, textlen) ==
    /\ inflight[c] = Idle
    /\ inflight' = [inflight EXCEPT ![c] =
            LET r == Request(c, "messages_add") IN
            IF r.user = None THEN Answer(r, "unauthorized", TRUE, r.sess)
            ELSE IF ~MessageForm_valid(textlen) THEN Answer(r, "form", FALSE, None)
            ELSE r @@ [pc |-> "flush", row |-> Message_new(r.user, textlen)]]
    /\ UNCHANGED <<users, messages, follows, likes, session, nextUserId, nextMsgId, bootTime, now>>

\* ... db.session.commit(): the INSERT; the redirect to /users/<g.user.id>
\* follows it
messages_add_flush_store(c) ==
    IF Message_commit_ok(users, inflight[c].row)
    THEN [Store EXCEPT !.messages = Extend(messages, nextMsgId, inflight[c].row)]
    ELSE Store

messages_add_flush_next(c) ==
    LET r == inflight[c] IN
    IF Message_commit_ok(users, r.row)
    THEN [op |-> r.op, sess |-> r.sess, user |-> r.user, pc |-> "g_user_id"]
    ELSE Answer(r, "error", FALSE, None)

\* the INSERT takes the next value of the messages.id sequence, also when
\* the foreign key then refuses the row
messages_add_flush(c) ==
    /\ Pending(c, "messages_add", "flush")
    /\ Size < MaxRows
    /\ Commit(messages_add_flush_store(c))
    /\ nextMsgId' = nextMsgId + 1
    /\ inflight' = [inflight EXCEPT ![c] = messages_add_flush_next(c)]
    /\ UNCHANGED <<session, nextUserId, bootTime, now>>

\* ---- POST /messages/<id>/delete ------------------------------------------
\* msg = Message.query.get(id); db.session.delete(msg); commit.
\* The handler compares nothing with g.user.  db.session.delete(None)
\* raises; the likes rows of the message go with it (ondelete cascade).
\* variant: the handler without its `if not g.user` guard
messages_destroy_outcome_unguarded(c, message_id) ==
    IF message_id \notin DOMAIN messages THEN "error" ELSE "redirect"

messages_destroy_outcome(c, message_id) ==
    IF add_user_to_g(c) = None THEN "unauthorized"
    ELSE IF message_id \notin DOMAIN messages THEN "error"
    ELSE "redirect"

messages_destroy_store(c, message_id) ==
    IF messages_destroy_outcome(c, message_id) = "redirect"
    THEN [Store EXCEPT
            !.messages = Restrict(messages, DOMAIN messages \ {message_id}),
            !.likes = { l \in likes : l.message_id # message_id }]
    ELSE Store

messages_destroy(c, message_id) ==
    /\ Commit(messages_destroy_store(c, message_id))
    /\ UNCHANGED <<session, nextUserId, nextMsgId, bootTime, now, inflight>>

\* the same request in steps, other requests running in between:
\* before_request and the gate ...
messages_destroy_begin(c, message_id) ==
    /\ inflight[c] = Idle
    /\ inflight' = [inflight EXCEPT ![c] =
                       Gate(Request(c, "messages_destroy"),
                            [pc |-> "get", message_id |-> message_id])]
    /\ UNCHANGED <<users, messages, follows, likes, session, nextUserId, nextMsgId, bootTime, now>>

\* ... msg = Message.query.get(message_id) and db.session.delete(msg), which
\* raises for None ...
messages_destroy_get(c) ==
    /\ Pending(c, "messages_destroy", "get")
    /\ inflight' = [inflight EXCEPT ![c] =
            LET r == inflight[c] IN
            IF r.message_id \in DOMAIN messages
            THEN [r EXCEPT !.pc = "flush"]
            ELSE Answer(r, "error", FALSE, None)]
    /\ UNCHANGED <<users, messages, follows, likes, session, nextUserId, nextMsgId, bootTime, now>>

\* ... db.session.commit(): DELETE FROM messages WHERE id = <id>; a DELETE
\* that matches no row is only a warning.  The redirect to
\* /users/<g.user.id> follows it.
messages_destroy_flush_store(c) ==
    LET message_id == inflight[c].message_id IN
    [Store EXCEPT
        !.messages = Restrict(messages, DOMAIN messages \ {message_id}),
        !.likes = { l \in likes : l.message_id # message_id }]

messages_destroy_flush(c) ==
    /\ Pending(c, "messages_destroy", "flush")
    /\ Commit(messages_destroy_flush_store(c))
    /\ inflight' = [inflight EXCEPT ![c] =
            LET r == inflight[c] IN
            [op |-> r.op, sess |-> r.sess, user |-> r.user, pc |-> "g_user_id"]]
    /\ UNCHANGED <<session, nextUserId, nextMsgId, bootTime, now>>

\* ---- POST /users/add_like/<id> -------------------------------------------
\* `if message in g.user.likes: remove, else: append`
toggle_like_kind(lk, row) == IF row \in lk THEN "delete" ELSE "insert"

\* The flush of one pending change of g.user.likes against the table lk:
\* the INSERT must pass the unique constraint on message_id and both
\* foreign keys; the DELETE must match its row.
Likes_flush_ok(lk, kind, row) ==
    IF kind = "insert"
    THEN /\ Likes_unique_ok(lk, row)
         /\ row.user_id \in DOMAIN users
         /\ row.message_id \in DOMAIN messages
    ELSE row \in lk

\* variant: remove without else, the message is appended in both cases
Likes_flush_append_always(lk, kind, row) ==
    IF Likes_flush_ok(lk, kind, row) THEN lk \cup {row} ELSE lk

\* The likes table after the commit; a rejected commit is rolled back.
Likes_flush(lk, kind, row) ==
    IF ~Likes_flush_ok(lk, kind, row) THEN lk
    ELSE IF kind = "insert" THEN lk \cup {row}
    ELSE lk \ {row}

\* variant: the handler without the own-warble check
toggle_like_own_unchecked(g_user, msg_id) == FALSE

\* `if message.user_id == g.user.id`
toggle_like_own(g_user, msg_id) == messages[msg_id].user_id = g_user

\* What the handler decides before it touches g.user.likes
toggle_like_gate(c, msg_id) ==
    IF add_user_to_g(c) = None THEN "unauthorized"
    ELSE IF msg_id \notin DOMAIN messages THEN "not_found"
    ELSE IF toggle_like_own(add_user_to_g(c), msg_id) THEN "forbidden"
    ELSE "commit"

\* The likes table after one whole toggle_like request of client c on msg_id
toggle_like_commit(lk, c, msg_id) ==
    LET row == LikeRow(add_user_to_g(c), msg_id) IN
    IF toggle_like_gate(c, msg_id) # "commit" THEN lk
    ELSE Likes_flush(lk, toggle_like_kind(lk, row), row)

toggle_like_outcome(c, msg_id) ==
    LET row == LikeRow(add_user_to_g(c), msg_id) IN
    IF toggle_like_gate(c, msg_id) # "commit" THEN toggle_like_gate(c, msg_id)
    ELSE IF Likes_flush_ok(likes, toggle_like_kind(likes, row), row) THEN "redirect"
    ELSE "error"                      \* IntegrityError at commit, not caught

toggle_like_store(c, msg_id) == [Store EXCEPT !.likes = toggle_like_commit(likes, c, msg_id)]

\* the request served without another request in between
toggle_like(c, msg_id) ==
    /\ Cardinality(toggle_like_store(c, msg_id).likes) > Cardinality(likes) => Size < MaxRows
    /\ Commit(toggle_like_store(c, msg_id))
    /\ UNCHANGED <<session, nextUserId, nextMsgId, bootTime, now, inflight>>

\* the same request in steps, other requests running in between:
\* before_request and the gate ...
toggle_like_begin(c, msg_id) ==
    /\ inflight[c] = Idle
    /\ inflight' = [inflight EXCEPT ![c] =
                       Gate(Request(c, "toggle_like"), [pc |-> "get", msg_id |-> msg_id])]
    /\ UNCHANGED <<users, messages, follows, likes, session, nextUserId, nextMsgId, bootTime, now>>

\* ... message = Message.query.get_or_404(msg_id) and the own-warble check,
\* whose flash has the response carry the session as the request read it ...
toggle_like_get(c) ==
    /\ Pending(c, "toggle_like", "get")
    /\ inflight' = [inflight EXCEPT ![c] =
            LET r == inflight[c] IN
            IF r.msg_id \notin DOMAIN messages THEN Answer(r, "not_found", FALSE, None)
            ELSE IF toggle_like_own(r.user, r.msg_id) THEN Answer(r, "forbidden", TRUE, r.sess)
            ELSE [r EXCEPT !.pc = "load"]]
    /\ UNCHANGED <<users, messages, follows, likes, session, nextUserId, nextMsgId, bootTime, now>>

\* ... g.user.likes is loaded: `if message in g.user.likes` ...
toggle_like_load(c) ==
    /\ Pending(c, "toggle_like", "load")
    /\ inflight' = [inflight EXCEPT ![c] =
            LET r == inflight[c]
                row == LikeRow(r.user, r.msg_id)
            IN [op |-> r.op, sess |-> r.sess, user |-> r.user, pc |-> "flush",
                kind |-> toggle_like_kind(likes, row), row |-> row]]
    /\ UNCHANGED <<users, messages, follows, likes, session, nextUserId, nextMsgId, bootTime, now>>

\* ... and db.session.commit(); redirect(url_for('homepage')) reads nothing
toggle_like_flush_next(c) ==
    LET r == inflight[c] IN
    IF Likes_flush_ok(likes, r.kind, r.row)
    THEN Answer(r, "redirect", FALSE, None)
    ELSE Answer(r, "error", FALSE, None)

toggle_like_flush(c) ==
    /\ Pending(c, "toggle_like", "flush")
    /\ likes' = Likes_flush(likes, inflight[c].kind, inflight[c].row)
    /\ Cardinality(likes') > Cardinality(likes) => Size < MaxRows
    /\ inflight' = [inflight EXCEPT ![c] = toggle_like_flush_next(c)]
    /\ UNCHANGED <<users, messages, follows, session, nextUserId, nextMsgId, bootTime, now>>

\* ---- GET / ---------------------------------------------------------------
\* Message JOIN Follows ON Message.user_id == Follows.user_being_followed_id
\* WHERE Message.user_id == g.user.id OR Follows.user_following_id == g.user.id.
\* A result row is <<message id, follows row, copy of the follows row>>.
\* variant: the join without the filter
homepage_rows_unfiltered(g_user) ==
    { <<m, f, k>> \in (DOMAIN messages) \X FollowRows \X (1..MaxRows) :
          /\ k <= CopiesIn(f, follows)
          /\ messages[m].user_id = f[2] }

homepage_rows(g_user) ==
    { <<m, f, k>> \in (DOMAIN messages) \X FollowRows \X (1..MaxRows) :
          /\ k <= CopiesIn(f, follows)
          /\ messages[m].user_id = f[2]
          /\ (messages[m].user_id = g_user \/ f[1] = g_user) }

\* The query selects the columns of Message: a result row shows its message
\* and nothing of the joined row.  ORDER BY timestamp DESC says nothing about
\* rows of one timestamp: they come in whatever order the engine produces.
\* cnt maps each message of one timestamp to the number of its result rows;
\* tie_orders(cnt) is the set of the orders these rows can come in.
RECURSIVE tie_orders(_)
tie_orders(cnt) ==
    IF DOMAIN cnt = {} THEN { <<>> }
    ELSE UNION { { <<m>> \o t :
                     t \in tie_orders(IF cnt[m] = 1
                                      THEN Restrict(cnt, DOMAIN cnt \ {m})
                                      ELSE [cnt EXCEPT ![m] = @ - 1]) } :
                 m \in DOMAIN cnt }

\* .order_by(Message.timestamp.desc()) over the result rows S: the set of
\* the lists of message ids the engine can return, the rows of the later
\* timestamps first
RECURSIVE order_by(_)
order_by(S) ==
    LET stamps == { messages[r[1]].timestamp : r \in S } IN
    IF S = {} THEN { <<>> }
    ELSE IF Cardinality(stamps) = 1
    THEN tie_orders([m \in { r[1] : r \in S } |-> Cardinality({ r \in S : r[1] = m })])
    ELSE LET half == Cardinality(stamps) \div 2
             mid == CHOOSE t \in stamps : Cardinality({ u \in stamps : u >= t }) = half
             head == { r \in S : messages[r[1]].timestamp >= mid }
         IN { x \o y : x \in order_by(head), y \in order_by(S \ head) }

\* variant: the query without .limit(100)
limit_absent(rows, n) == rows

\* .limit(n)
limit(rows, n) == SubSeq(rows, 1, IF Len(rows) < n THEN Len(rows) ELSE n)

\* variant: one list entry per row of the result
all_rows(ms) == ms

\* Query.all() on a single-entity query: one object per row, an object that
\* was already returned is not returned again
RECURSIVE unique_list(_)
unique_list(ms) ==
    IF Len(ms) <= 1 THEN ms
    ELSE LET half == Len(ms) \div 2
             init == unique_list(SubSeq(ms, 1, half))
             rest == unique_list(SubSeq(ms, half + 1, Len(ms)))
             seen == { init[i] : i \in 1..Len(init) }
         IN init \o SelectSeq(rest, LAMBDA m : m \notin seen)

\* the lists the query of homepage can return
homepage_messages(g_user) ==
    { unique_list(limit(rows, FeedLimit)) : rows \in order_by(homepage_rows(g_user)) }

\* ---- the message lists of the other views ---------------------------------
\* the set of entries of a list
Range(seq) == { seq[i] : i \in 1..Len(seq) }

\* users_show: Message.query.filter(Message.user_id == user_id)
\*   .order_by(Message.timestamp.desc()).limit(100).all()
\* the lists the query of users_show can return
users_show_messages(user_id) ==
    { unique_list(limit(rows, FeedLimit)) :
          rows \in order_by({ <<m, <<user_id, user_id>>, 1>> : m \in user_messages(user_id) }) }

\* users_likes: Message.query.join(Likes, Message.id == Likes.message_id)
\*   .filter(Likes.user_id == g.user.id): the viewer's likes, whatever user_id is
\*   .order_by(Message.timestamp.desc()).limit(100).all(): the lists the
\* query can return
users_likes_messages(c, user_id) ==
    LET joined == { x \in likes : x.user_id = add_user_to_g(c) /\ x.message_id \in DOMAIN messages }
    IN { unique_list(limit(rows, FeedLimit)) :
             rows \in order_by({ <<l.message_id, <<l.user_id, l.message_id>>, 1>> : l \in joined }) }

homepage_outcome(c) == IF add_user_to_g(c) # None THEN "ok" ELSE "anon"

\* the lists of messages home.html can be handed
feeds_for(c) ==
    IF homepage_outcome(c) = "ok" THEN homepage_messages(add_user_to_g(c)) ELSE { <<>> }

homepage(c) ==
    /\ homepage_outcome(c) \in {"ok", "anon"}
    /\ UNCHANGED vars

\* the same request in steps: before_request and `if g.user:` ...
homepage_begin(c) ==
    /\ inflight[c] = Idle
    /\ inflight' = [inflight EXCEPT ![c] =
                       LET r == Request(c, "homepage") IN
                       IF r.user = None THEN Answer(r, "anon", FALSE, None)
                       ELSE r @@ [pc |-> "query"]]
    /\ UNCHANGED <<users, messages, follows, likes, session, nextUserId, nextMsgId, bootTime, now>>

\* ... and the query, for the user before_request has loaded, over the
\* tables as they are now: the lists home.html can be handed
homepage_query(c) ==
    /\ Pending(c, "homepage", "query")
    /\ homepage_messages(inflight[c].user) # {}
    /\ inflight' = [inflight EXCEPT ![c] = Answer(inflight[c], "ok", FALSE, None)]
    /\ UNCHANGED <<users, messages, follows, likes, session, nextUserId, nextMsgId, bootTime, now>>

\* ---- process restart -----------------------------------------------------
\* models.py is imported again: Message.timestamp's default is evaluated anew
restart ==
    /\ bootTime # now
    /\ bootTime' = now
    /\ UNCHANGED <<users, messages, follows, likes, session, nextUserId, nextMsgId, now, inflight>>

\* ---- the clock -------------------------------------------------------------
\* time passes while the process runs
tick ==
    /\ now < MaxClock
    /\ now' = now + 1
    /\ UNCHANGED <<users, messages, follows, likes, session, nextUserId, nextMsgId, bootTime, inflight>>

\* ---- the requests the clients send --------------------------------------
\* forms that repeat a stored username, a stored e-mail address or both
DuplicateForms ==
    { f \in SignupForms :
        /\ f.password = Form(f.username).password
        /\ \E u \in DOMAIN users :
              \/ f.username = users[u].username /\ f.email \in {users[u].email, nextUserId}
              \/ f.email = users[u].email /\ f.username = nextUserId }

\* login forms with the username of a stored user
StoredLogins ==
    { [username |-> users[u].username, password |-> p] : u \in DOMAIN users, p \in Passwords }

\* the ids the requests served in steps name
StepIds == {1, 2}

\* All mutating requests.
Next ==
    \E c \in Clients :
        \/ signup(c, Form(nextUserId))
        \/ \E f \in DuplicateForms : signup(c, f)
        \/ \E f \in LoginForms : login(c, f)
        \/ logout(c)
        \/ \E u \in DOMAIN users, p \in Passwords, v \in BOOLEAN :
               profile(c, [username |-> users[u].username, email |-> users[u].email,
                           password |-> p], v)
        \/ \E u \in UserIds : add_follow(c, u)
        \/ \E u \in UserIds : stop_following(c, u)
        \/ \E t \in TextLens : messages_add(c, t)
        \/ \E m \in MessageIds : messages_destroy(c, m)
        \/ \E m \in MessageIds : toggle_like(c, m)
        \/ delete_user(c)

Spec == Init /\ [][Next]_vars

\* Messages and likes, two browsers whose toggle_like requests overlap.
NextLikes ==
    \/ signup("c1", Form(nextUserId))
    \/ \E f \in StoredLogins : login("c1", f)
    \/ logout("c1")
    \/ \E t \in TextLens : messages_add("c1", t)
    \/ \E m \in MessageIds : messages_destroy("c1", m)
    \/ delete_user("c1")
    \/ \E m \in StepIds : toggle_like_begin("c1", m)
    \/ toggle_like_get("c1")
    \/ toggle_like_load("c1")
    \/ toggle_like_flush("c1")
    \/ respond("c1")
    \/ \E f \in StoredLogins : login("c2", f)
    \/ \E m \in MessageIds : toggle_like("c2", m)

SpecLikes == Init /\ [][NextLikes]_vars

\* Follows, messages and the feed.
NextFeed ==
    \/ signup("c1", Form(nextUserId))
    \/ \E f \in DuplicateForms : signup("c1", f)
    \/ \E f \in LoginForms : login("c1", f)
    \/ logout("c1")
    \/ \E u \in UserIds : add_follow("c1", u)
    \/ \E u \in UserIds : stop_following("c1", u)
    \/ \E t \in TextLens : messages_add("c1", t)
    \/ \E m \in MessageIds : messages_destroy("c1", m)
    \/ delete_user("c1")
    \/ homepage("c1")
    \/ tick
    \/ restart

SpecFeed == Init /\ [][NextFeed]_vars

\* The session gate in front of the read routes, two browsers.
NextViews ==
    \E c \in Clients :
        \/ signup(c, Form(nextUserId))
        \/ \E f \in DuplicateForms : signup(c, f)
        \/ \E f \in LoginForms : login(c, f)
        \/ logout(c)
        \/ \E u \in UserIds : users_show(c, u)
        \/ \E m \in MessageIds : messages_show(c, m)
        \/ \E u \in UserIds : users_likes(c, u)
        \/ \E u \in UserIds : show_following(c, u)
        \/ \E u \in UserIds : users_followers(c, u)
        \/ delete_user(c)

SpecViews == Init /\ [][NextViews]_vars

\* The pages of a browser whose requests overlap with the requests of a
\* second browser of the same account.
NextPages ==
    \/ signup("c1", Form(nextUserId))
    \/ logout("c1")
    \/ \E u \in StepIds : users_show_begin("c1", u)
    \/ \E u \in StepIds : users_likes_begin("c1", u)
    \/ \E u \in StepIds : show_following_begin("c1", u)
    \/ \E u \in StepIds : users_followers_begin("c1", u)
    \/ user_get("c1")
    \/ \E m \in StepIds : messages_show_begin("c1", m)
    \/ messages_show_get("c1")
    \/ homepage_begin("c1")
    \/ homepage_query("c1")
    \/ respond("c1")
    \/ \E f \in StoredLogins : login("c2", f)
    \/ \E t \in {TextMax} : messages_add("c2", t)
    \/ delete_user("c2")

SpecPages == Init /\ [][NextPages]_vars

\* Accounts, two browsers whose signup, login and logout requests overlap.
NextSignup ==
    \/ signup_begin("c1", Form(nextUserId))
    \/ signup_flush("c1")
    \/ signup_do_login("c1")
    \/ \E k \in {1, 2}, p \in Passwords : login_begin("c1", [username |-> k, password |-> p])
    \/ login_authenticate("c1")
    \/ logout_begin("c1")
    \/ logout("c1")
    \/ respond("c1")
    \/ signup("c2", Form(nextUserId))
    \/ \E f \in DuplicateForms : signup("c2", f)
    \/ \E f \in LoginForms : login("c2", f)
    \/ logout("c2")
    \/ delete_user("c2")

SpecSignup == Init /\ [][NextSignup]_vars

\* Follows, two browsers whose follow and unfollow requests overlap.
NextFollows ==
    \/ signup("c1", Form(nextUserId))
    \/ \E u \in StepIds : add_follow_begin("c1", u)
    \/ add_follow_get("c1")
    \/ add_follow_load("c1")
    \/ \E u \in StepIds : stop_following_begin("c1", u)
    \/ stop_following_get("c1")
    \/ stop_following_load("c1")
    \/ follow_flush("c1")
    \/ g_user_id("c1")
    \/ respond("c1")
    \/ \E f \in StoredLogins : login("c2", f)
    \/ \E u \in UserIds : add_follow("c2", u)
    \/ \E u \in UserIds : stop_following("c2", u)
    \/ delete_user("c2")

SpecFollows == Init /\ [][NextFollows]_vars

\* Messages of every boundary length, one browser.
NextMessages ==
    \/ signup("c1", Form(nextUserId))
    \/ logout("c1")
    \/ \E t \in {0, 1, TextMax, TextMax + 1} : messages_add("c1", t)
    \/ \E m \in MessageIds : messages_destroy("c1", m)

SpecMessages == Init /\ [][NextMessages]_vars

\* Messages and their owners: a browser whose requests overlap with the
\* requests of a second browser of the same account.  The second browser
\* also follows and unfollows user 1 and likes and unlikes message 1, as
\* any stored user, so that each of the four collections delete_user reads
\* changes between its reads.
NextOwners ==
    \/ nextUserId <= MaxAccounts /\ signup("c1", Form(nextUserId))
    \/ \E t \in TextLens : messages_add_begin("c1", t)
    \/ messages_add_flush("c1")
    \/ \E m \in StepIds : messages_destroy_begin("c1", m)
    \/ messages_destroy_get("c1")
    \/ messages_destroy_flush("c1")
    \/ delete_user_begin("c1")
    \/ delete_user_load("c1")
    \/ delete_user_flush("c1")
    \/ g_user_id("c1")
    \/ respond("c1")
    \/ \E f \in StoredLogins : login("c2", f)
    \/ \E t \in TextLens : messages_add("c2", t)
    \/ \E m \in MessageIds : messages_destroy("c2", m)
    \/ add_follow("c2", 1)
    \/ stop_following("c2", 1)
    \/ toggle_like("c2", 1)
    \/ delete_user("c2")

SpecOwners == Init /\ [][NextOwners]_vars

\* Profile updates that rename users.
NextProfile ==
    \/ nextUserId <= MaxAccounts /\ signup("c1", Form(nextUserId))
    \/ logout("c1")
    \/ \E k \in {1, nextUserId, nextUserId + 1}, p \in Passwords, v \in BOOLEAN :
           profile_begin("c1", [username |-> k, email |-> k, password |-> p], v)
    \/ profile_authenticate("c1")
    \/ profile_flush("c1")
    \/ g_user_id("c1")
    \/ respond("c1")
    \/ \E f \in StoredLogins : login("c2", f)
    \/ \E k \in {1, nextUserId}, p \in Passwords :
           profile("c2", [username |-> k, email |-> k, password |-> p], TRUE)
    \/ delete_user("c2")

SpecProfile == Init /\ [][NextProfile]_vars

\* Long timelines: user 1 has posted n messages, the first g of them in one
\* run of the process (they share its timestamp 0) and every later one
\* after a restart of its own; user 1 is followed by user 2, by themself or
\* by both, and user 2 has liked every message.  Both users log in and out
\* and read the home page, the profile pages and the likes pages.
InitTimeline ==
    \E n \in (FeedLimit - 1)..(FeedLimit + MaxExtra), g \in 1..MaxTie,
       fs \in { {<<2, 1>>}, {<<1, 1>>}, {<<2, 1>>, <<1, 1>>} } :
        /\ users = <<User_signup(Form(1)), User_signup(Form(2))>>
        /\ messages = [m \in 1..n |->
                          [user_id |-> 1,
                           timestamp |-> IF m <= g THEN 0 ELSE m - g,
                           textlen |-> TextMax]]
        /\ follows = SetToBag(fs)
        /\ likes = { LikeRow(2, m) : m \in 1..n }
        /\ session = [c \in Clients |-> None]
        /\ nextUserId = 3
        /\ nextMsgId = n + 1
        /\ bootTime = n - g
        /\ now = n - g
        /\ inflight = [c \in Clients |-> Idle]

NextTimeline ==
    \E c \in Clients :
        \/ \E f \in LoginForms : login(c, f)
        \/ logout(c)
        \/ homepage(c)
        \/ \E u \in UserIds : users_show(c, u)
        \/ \E u \in UserIds : users_likes(c, u)

SpecTimeline == InitTimeline /\ [][NextTimeline]_vars

\* ==== properties ==========================================================

Authors(m) == messages[m].user_id

\* C1: only a message's owner may delete it: a delete-message request of a
\* logged-in user who does not own the message ends unauthorized and the
\* message is still there afterwards.
C1_OnlyOwnerDeletes ==
    \A c \in Clients, m \in DOMAIN messages :
        (add_user_to_g(c) # None /\ add_user_to_g(c) # Authors(m))
        => (/\ messages_destroy_outcome(c, m) = "unauthorized"
            /\ m \in DOMAIN messages_destroy_store(c, m).messages)

\* C2: while the client is Anonymous, each of follow, stop-following, profile
\* update, delete account, new message, delete message and toggle like ends
\* unauthorized and leaves users, messages, follows and likes as they were.
C2_AnonymousRefused ==
    \A c \in Clients :
        add_user_to_g(c) = None =>
            /\ \A u \in UserIds :
                  /\ add_follow_outcome(c, u) = "unauthorized"
                  /\ add_follow_store(c, u) = Store
                  /\ stop_following_outcome(c, u) = "unauthorized"
                  /\ stop_following_store(c, u) = Store
            /\ \A k \in Names, p \in Passwords, v \in BOOLEAN :
                  LET form == [username |-> k, email |-> k, password |-> p] IN
                  /\ profile_outcome(c, form, v) = "unauthorized"
                  /\ profile_store(c, form, v) = Store
            /\ delete_user_outcome(c) = "unauthorized"
            /\ delete_user_store(c) = Store
            /\ \A t \in TextLens :
                  /\ messages_add_outcome(c, t) = "unauthorized"
                  /\ messages_add_store(c, t) = Store
            /\ \A m \in MessageIds :
                  /\ messages_destroy_outcome(c, m) = "unauthorized"
                  /\ messages_destroy_store(c, m) = Store
                  /\ toggle_like_outcome(c, m) = "unauthorized"
                  /\ toggle_like_store(c, m) = Store

\* an Anonymous client in front of a store in which every table has rows,
\* reached through requests of the other client
C2_Witness ==
    /\ add_user_to_g("c1") = None
    /\ add_user_to_g("c2") # None
    /\ DOMAIN users # {}
    /\ DOMAIN messages # {}
    /\ FollowRows # {}
    /\ likes # {}

\* C3: an Anonymous request to /users/<id>/likes, /users/<id>/following or
\* /users/<id>/followers of a user ends in the unauthorized redirect.
C3_AnonymousReadsRefused ==
    /\ \A c \in Clients, u \in DOMAIN users :
          add_user_to_g(c) = None =>
              /\ users_likes_outcome(c, u) = "unauthorized"
              /\ show_following_outcome(c, u) = "unauthorized"
              /\ users_followers_outcome(c, u) = "unauthorized"
    /\ \A c \in Clients :
          inflight[c] # Idle /\ inflight[c].user = None =>
              /\ inflight[c].op \in {"show_following", "users_followers"} =>
                     inflight[c].pc = "respond" /\ inflight[c].outcome = "unauthorized"
              /\ (Pending(c, "users_likes", "get") /\ inflight[c].user_id \in DOMAIN users) =>
                     user_get_next(c).outcome = "unauthorized"

\* C4: the feed of a logged-in user holds no message whose author is neither
\* the user nor somebody the user follows.
C4_FeedOnlyOwnOrFollowed ==
    \A c \in Clients :
        \A feed \in feeds_for(c) :
            \A i \in 1..Len(feed) :
                Authors(feed[i]) \in {add_user_to_g(c)} \cup following(add_user_to_g(c))

\* a message of an author the user does not follow takes part in the join
\* (its author has a follower) and the filter is what keeps it out
C4_Witness ==
    \E c \in Clients, m \in DOMAIN messages :
        /\ add_user_to_g(c) # None
        /\ Authors(m) \notin {add_user_to_g(c)} \cup following(add_user_to_g(c))
        /\ followers(Authors(m)) # {}
        /\ \A feed \in feeds_for(c) : \A i \in 1..Len(feed) : feed[i] # m

\* C5: the feed of a logged-in user holds every message of the user and
\* every message of a user the user follows (fewer than 100 exist), whether
\* or not anybody follows the user.
C5_FeedComplete ==
    \A c \in Clients, m \in DOMAIN messages :
        (/\ add_user_to_g(c) # None
         /\ Cardinality(DOMAIN messages) < FeedLimit
         /\ Authors(m) \in {add_user_to_g(c)} \cup following(add_user_to_g(c)))
        => \A feed \in feeds_for(c) : \E i \in 1..Len(feed) : feed[i] = m

\* C6: the feed never holds the same message twice, whatever the follows are.
C6_FeedNoDuplicates ==
    \A c \in Clients :
        \A feed \in feeds_for(c) :
            \A i, j \in 1..Len(feed) : i # j => feed[i] # feed[j]

\* the join yields more rows than the feed has messages: a message of the
\* user is joined with each of several followers
C6_Witness ==
    \E c \in Clients :
        /\ \E feed \in feeds_for(c) :
              /\ Len(feed) >= 1
              /\ Cardinality(homepage_rows(add_user_to_g(c))) > Len(feed)
        /\ Cardinality(followers(add_user_to_g(c))) >= 2

\* C7: two toggle_like requests in a row, by the same logged-in user on the
\* same message of somebody else, leave the user's like of the message as
\* it was before the first.
C7_ToggleTwice ==
    \A c \in Clients, m \in DOMAIN messages :
        (add_user_to_g(c) # None /\ Authors(m) # add_user_to_g(c))
        => LET row == LikeRow(add_user_to_g(c), m)
               once == toggle_like_commit(likes, c, m)
               twice == toggle_like_commit(once, c, m)
           IN (row \in twice) <=> (row \in likes)

\* a logged-in user whose like of somebody else's message is in the table
C7_Witness ==
    \E c \in Clients, m \in DOMAIN messages :
        /\ add_user_to_g(c) # None
        /\ Authors(m) # add_user_to_g(c)
        /\ LikeRow(add_user_to_g(c), m) \in likes
        /\ LikeRow(add_user_to_g(c), m) \notin toggle_like_commit(likes, c, m)

\* C8: no like row joins a message with its own author, and a toggle_like
\* of the author is answered "forbidden" with the tables unchanged.
C8_NoSelfLike ==
    /\ \A l \in likes :
          l.message_id \in DOMAIN messages /\ Authors(l.message_id) # l.user_id
    /\ \A c \in Clients, m \in DOMAIN messages :
          (add_user_to_g(c) # None /\ Authors(m) = add_user_to_g(c))
          => (toggle_like_outcome(c, m) = "forbidden" /\ toggle_like_store(c, m) = Store)

\* an author in front of the own message, while others' likes exist
C8_Witness ==
    \E c \in Clients, m \in DOMAIN messages :
        /\ toggle_like_gate(c, m) = "forbidden"
        /\ likes # {}

\* C9: each message has at most one like row, also when toggle_like requests
\* overlap; a request that would add a second like for a message fails at
\* the commit and adds nothing.
C9_OneLikePerMessage ==
    /\ \A l1, l2 \in likes : l1.message_id = l2.message_id => l1 = l2
    /\ \A c \in Clients, m \in DOMAIN messages :
          (/\ toggle_like_gate(c, m) = "commit"
           /\ \E l \in likes : l.message_id = m /\ l.user_id # add_user_to_g(c))
          => (toggle_like_outcome(c, m) = "error" /\ toggle_like_store(c, m) = Store)
    /\ \A c \in Clients :
          (/\ Pending(c, "toggle_like", "flush")
           /\ inflight[c].kind = "insert"
           /\ \E l \in likes : l.message_id = inflight[c].row.message_id)
          => (/\ toggle_like_flush_next(c).outcome = "error"
              /\ Likes_flush(likes, inflight[c].kind, inflight[c].row) = likes)

\* a request that found the message not liked waits for its commit while
\* another user's like of the message has been committed
C9_Witness ==
    \E c \in Clients :
        /\ Pending(c, "toggle_like", "flush")
        /\ inflight[c].kind = "insert"
        /\ \E l \in likes : /\ l.message_id = inflight[c].row.message_id
                            /\ l.user_id # inflight[c].row.user_id

\* C10: delete_user of a logged-in user succeeds in every state and leaves
\* no message of the user, no follows row with the user on either side and
\* no like by the user or on a message of the user.
C10_DeleteUserCascades ==
    \A c \in Clients :
        add_user_to_g(c) # None =>
            LET u == add_user_to_g(c)
                st == delete_user_store(c) IN
            /\ delete_user_outcome(c) = "redirect"
            /\ u \notin DOMAIN st.users
            /\ \A m \in DOMAIN st.messages : st.messages[m].user_id # u
            /\ \A r \in BagToSet(st.follows) : r[1] # u /\ r[2] # u
            /\ \A l \in st.likes :
                  /\ l.user_id # u
                  /\ l.message_id \in DOMAIN st.messages

\* C11: a signup whose username or e-mail address is that of a stored user
\* ends with the duplicate outcome (the form with "Username already taken"),
\* leaves the tables as they are and leaves the session as it is.
C11_DuplicateSignupRejected ==
    \A c \in Clients, f \in SignupForms :
        (\E u \in DOMAIN users : users[u].username = f.username \/ users[u].email = f.email)
        => (/\ signup_outcome(f) = "form"
            /\ signup_store(f) = Store
            /\ signup_session(c, f) = session)

\* a user is stored, an anonymous client is there to sign up, and some form
\* repeats a stored e-mail address under a username nobody has
C11_Witness ==
    /\ \E c \in Clients : session[c] = None
    /\ \E f \in SignupForms :
          /\ \E u \in DOMAIN users : users[u].email = f.email
          /\ \A u \in DOMAIN users : users[u].username # f.username
          /\ signup_outcome(f) = "form"

\* C12: of two overlapping signup requests with the same username or the
\* same e-mail address exactly one commits: a pending request commits when
\* no stored user has its username or e-mail address, after that commit a
\* second commit of the same form is refused, and a pending request whose
\* username or e-mail address has been stored meanwhile ends with the
\* duplicate outcome and writes nothing.  No two stored users ever share a
\* username or an e-mail address.
C12_ConcurrentSignup ==
    /\ \A a, b \in DOMAIN users :
          a # b => (users[a].username # users[b].username /\ users[a].email # users[b].email)
    /\ \A c \in Clients :
          Pending(c, "signup", "flush") =>
              LET f == inflight[c].form
                  taken == \E u \in DOMAIN users :
                               users[u].username = f.username \/ users[u].email = f.email
              IN IF taken
                 THEN /\ ~signup_commit_ok(users, nextUserId, f)
                      /\ signup_flush_next(c).pc = "respond"
                      /\ signup_flush_next(c).outcome = "form"
                      /\ signup_flush_store(c) = Store
                 ELSE /\ signup_commit_ok(users, nextUserId, f)
                      /\ signup_flush_store(c).users[nextUserId].username = f.username
                      /\ ~signup_commit_ok(signup_flush_store(c).users, nextUserId + 1, f)

\* a request has added its user and waits for its commit while another
\* request with the same username has committed
C12_Witness ==
    \E c \in Clients :
        /\ Pending(c, "signup", "flush")
        /\ \E u \in DOMAIN users : users[u].username = inflight[c].form.username

\* C13: a signup that succeeds stores a password field different from the
\* password that was typed, and authenticate with the same username and
\* password then returns the new user.
C13_PasswordHashed ==
    /\ \A u \in DOMAIN users : users[u].password \notin Passwords
    /\ \A f \in SignupForms :
          signup_outcome(f) = "redirect" =>
              LET us == signup_store(f).users IN
              /\ nextUserId \in DOMAIN us
              /\ us[nextUserId].password # f.password
              /\ User_authenticate(us, f.username, f.password) = nextUserId

\* a stored user, who signed up with the odd or the even password, and a
\* further signup that can succeed
C13_Witness ==
    /\ \E u \in DOMAIN users, p \in Passwords :
          authenticate(users[u].username, p) = u /\ users[u].password # p
    /\ \E f \in SignupForms : signup_outcome(f) = "redirect"

\* C14: authenticate returns a user only if that user has exactly the given
\* username and the given password verifies against the stored credential;
\* an unknown username and a wrong password both give the no-match value
\* None, and login then presents the form again and leaves the session as
\* it is: the response of a request served next to other requests carries
\* the session the request came with.
C14_AuthenticateNoMatch ==
    /\ \A f \in LoginForms :
          LET r == authenticate(f.username, f.password)
              known == { u \in DOMAIN users : users[u].username = f.username }
              verifies == \E u \in known : users[u].password = <<"bcrypt", f.password>>
          IN /\ r # None => (/\ r \in known
                             /\ users[r].password = <<"bcrypt", f.password>>)
             /\ (known = {} \/ ~verifies) =>
                    (/\ r = None
                     /\ login_outcome(f) = "form"
                     /\ \A c \in Clients : login_session(c, f) = session)
    /\ \A c \in Clients :
          Pending(c, "login", "authenticate") =>
              LET r == inflight[c]
                  next == login_authenticate_next(c)
              IN authenticate(r.form.username, r.form.password) = None =>
                     (/\ next.outcome = "form"
                      /\ next.cookie = r.sess)

\* a logged-in client in front of a form with a stored username and the
\* wrong password, and of a form with a username nobody has; a login of a
\* logged-in browser that will be refused is under way
C14_Witness ==
    /\ \E c \in Clients : add_user_to_g(c) # None
    /\ \E c \in Clients :
          /\ Pending(c, "login", "authenticate")
          /\ inflight[c].sess # None
          /\ authenticate(inflight[c].form.username, inflight[c].form.password) = None
    /\ \E f \in LoginForms :
          /\ \E u \in DOMAIN users : users[u].username = f.username
          /\ authenticate(f.username, f.password) = None
    /\ \E f \in LoginForms :
          /\ \A u \in DOMAIN users : users[u].username # f.username
          /\ authenticate(f.username, f.password) = None

\* C15: a login request whose credentials match puts the id of that user
\* into the client's session, a logout request leaves the client's session
\* without a user, also when it had none, and neither request changes a
\* table or the session of another client.
C15_SessionGate ==
    /\ [](\A c \in Clients :
            /\ do_logout(c)[c] = None
            /\ session[c] = None => do_logout(c) = session
            /\ \A d \in Clients \ {c} : do_logout(c)[d] = session[d]
            /\ \A f \in LoginForms :
                  authenticate(f.username, f.password) # None =>
                      (/\ login_outcome(f) = "redirect"
                       /\ login_session(c, f)[c] = authenticate(f.username, f.password)
                       /\ \A d \in Clients \ {c} : login_session(c, f)[d] = session[d]))
    /\ [][ \A c \in Clients :
             /\ logout(c) => (session' = do_logout(c) /\ Store' = Store)
             /\ \A f \in LoginForms :
                   login(c, f) => (session' = login_session(c, f) /\ Store' = Store) ]_vars

\* one client is logged in as a stored user while another has no user:
\* both a login and a logout in the Anonymous state can happen next
C15_Witness ==
    \E c, d \in Clients :
        /\ add_user_to_g(c) # None
        /\ session[d] = None
        /\ \E f \in LoginForms : authenticate(f.username, f.password) \notin {None, add_user_to_g(c)}

\* C16: the follows table holds each pair (follower, followed) at most
\* once, also when follow and unfollow requests overlap; a request that
\* would store a pair a second time fails at the commit and adds nothing.
C16_FollowPairOnce ==
    /\ \A r \in FollowRows : CopiesIn(r, follows) = 1
    /\ \A c \in Clients :
          (/\ Pending(c, "add_follow", "flush")
           /\ inflight[c].kind = "insert"
           /\ inflight[c].row \in FollowRows)
          => (/\ follow_flush_next(c).pc = "respond"
              /\ follow_flush_next(c).outcome = "error"
              /\ Follows_flush(follows, inflight[c].kind, inflight[c].row) = follows)

\* a follow request that found the pair absent waits for its commit while
\* another request of the same user has stored the pair
C16_Witness ==
    \E c \in Clients :
        /\ Pending(c, "add_follow", "flush")
        /\ inflight[c].kind = "insert"
        /\ inflight[c].row \in FollowRows

\* C17: add_follow by a user who already follows the target does not fail
\* (it redirects) and leaves the follows table as it is.
C17_FollowIdempotent ==
    \A c \in Clients, b \in DOMAIN users :
        (add_user_to_g(c) # None /\ b \in following(add_user_to_g(c)))
        => (/\ add_follow_outcome(c, b) = "redirect"
            /\ add_follow_store(c, b) = Store)

\* a logged-in user who follows somebody else
C17_Witness ==
    \E c \in Clients, b \in DOMAIN users :
        /\ add_user_to_g(c) # None
        /\ b # add_user_to_g(c)
        /\ b \in following(add_user_to_g(c))

\* C18: stop_following removes the pair when the user follows the target;
\* when the pair is absent (the user does not follow the target, or no user
\* has the id) the request ends without an exception leaving the handler
\* and the follows table stays as it is.
C18_UnfollowAbsentTolerated ==
    \A c \in Clients, b \in UserIds :
        add_user_to_g(c) # None =>
            IF b \in following(add_user_to_g(c))
            THEN /\ stop_following_outcome(c, b) = "redirect"
                 /\ FollowPair(add_user_to_g(c), b) \notin BagToSet(stop_following_store(c, b).follows)
            ELSE /\ stop_following_outcome(c, b) # "error"
                 /\ stop_following_store(c, b) = Store

\* C19: a.is_following(b) is true exactly when the follows table holds the
\* pair (a, b), it equals b.is_followed_by(a), and without the pair (b, a)
\* b.is_following(a) is false whatever a follows.
C19_FollowingRelation ==
    \A a, b \in DOMAIN users :
        /\ is_following(a, b) <=> (FollowPair(a, b) \in FollowRows)
        /\ is_following(a, b) <=> is_followed_by(b, a)
        /\ FollowPair(b, a) \notin FollowRows => ~is_following(b, a)

\* a follows b and b does not follow a
C19_Witness ==
    \E a, b \in DOMAIN users :
        /\ a # b
        /\ is_following(a, b)
        /\ is_followed_by(b, a)
        /\ ~is_following(b, a)

\* C20: every stored message has a text of 1 to 140 characters; messages_add
\* with no text or with 141 characters is refused and stores nothing, with
\* 1 or with 140 characters it stores the message.
C20_TextLength ==
    /\ \A m \in DOMAIN messages : messages[m].textlen \in 1..TextMax
    /\ \A c \in Clients :
          add_user_to_g(c) # None =>
              /\ \A t \in {0, TextMax + 1} :
                    /\ messages_add_outcome(c, t) \in {"form", "error"}
                    /\ messages_add_store(c, t) = Store
              /\ \A t \in {1, TextMax} :
                    /\ messages_add_outcome(c, t) = "redirect"
                    /\ DOMAIN messages_add_store(c, t).messages = DOMAIN messages \cup {nextMsgId}
                    /\ messages_add_store(c, t).messages[nextMsgId].textlen = t

\* messages of 1 and of 140 characters are stored and their author is
\* logged in
C20_Witness ==
    \E c \in Clients, m1, m2 \in DOMAIN messages :
        /\ add_user_to_g(c) # None
        /\ messages[m1].textlen = 1
        /\ messages[m2].textlen = TextMax
        /\ Authors(m1) = add_user_to_g(c)

\* C21: the user_id of every stored message is the id of a stored user; the
\* message messages_add stores is owned by the user the request acts for;
\* a message row without a user_id, or with the id of a user deleted
\* meanwhile, is refused at the commit; and the commit of delete_user
\* leaves no message of a user it removes, whatever was committed between
\* the reads of its flush.
C21_MessageOwner ==
    /\ \A m \in DOMAIN messages : messages[m].user_id # None /\ messages[m].user_id \in DOMAIN users
    /\ \A c \in Clients, t \in TextLens :
          messages_add_outcome(c, t) = "redirect" =>
              /\ nextMsgId \in DOMAIN messages_add_store(c, t).messages
              /\ messages_add_store(c, t).messages[nextMsgId].user_id = add_user_to_g(c)
    /\ \A t \in TextLens : ~Message_commit_ok(users, Message_new(None, t))
    /\ \A c \in Clients :
          (/\ Pending(c, "messages_add", "flush")
           /\ inflight[c].row.user_id \notin DOMAIN users)
          => (/\ messages_add_flush_next(c).pc = "respond"
              /\ messages_add_flush_next(c).outcome = "error"
              /\ messages_add_flush_store(c) = Store)
    /\ \A c \in Clients :
          Pending(c, "delete_user", "flush") =>
              LET st == delete_user_flush_store(c)
              IN \A m \in DOMAIN st.messages : st.messages[m].user_id \in DOMAIN st.users

\* a message waits for its commit while its author's account has been
\* deleted through another browser, and messages of other users are stored
C21_Witness ==
    /\ \E c \in Clients :
          /\ Pending(c, "messages_add", "flush")
          /\ inflight[c].row.user_id \notin DOMAIN users
    /\ DOMAIN messages # {}

\* C22: profile changes the fields of the acting user only when the
\* submitted password verifies against that user's stored credential; with
\* a wrong password no field of any user changes, and a request that does
\* change something changes the row of the acting user alone.
C22_ProfileNeedsPassword ==
    /\ \A c \in Clients, f \in SignupForms, v \in BOOLEAN :
        add_user_to_g(c) # None =>
            LET u == add_user_to_g(c)
                st == profile_store(c, f, v)
            IN /\ users[u].password # <<"bcrypt", f.password>> =>
                     (/\ st = Store
                      /\ profile_outcome(c, f, v) \in {"form", "invalid_password"})
               /\ st # Store =>
                     (/\ users[u].password = <<"bcrypt", f.password>>
                      /\ DOMAIN st.users = DOMAIN users
                      /\ \A w \in DOMAIN users \ {u} : st.users[w] = users[w]
                      /\ st.users[u].username = f.username
                      /\ st.users[u].email = f.email
                      /\ st.users[u].password = users[u].password)
    /\ \A c \in Clients :
          Pending(c, "profile", "flush") =>
              LET r == inflight[c]
                  st == profile_flush_store(c)
              IN st # Store =>
                     (/\ users[r.user].password = <<"bcrypt", r.form.password>>
                      /\ DOMAIN st.users = DOMAIN users
                      /\ \A w \in DOMAIN users \ {r.user} : st.users[w] = users[w]
                      /\ st.users[r.user].password = users[r.user].password)

\* C23: a request whose commit is refused or whose handler raises leaves the
\* tables and the session as they were before the request, however the
\* server is run.
C23_FailedRequestChangesNothing ==
    \A c \in Clients :
        /\ delete_user_outcome(c) = "error" =>
              (/\ delete_user_store(c) = Store
               /\ \A propagate \in BOOLEAN : delete_user_session(c, propagate) = session)
        /\ \A m \in MessageIds :
              /\ toggle_like_outcome(c, m) = "error" => toggle_like_store(c, m) = Store
              /\ messages_destroy_outcome(c, m) = "error" => messages_destroy_store(c, m) = Store
        /\ \A u \in UserIds :
              stop_following_outcome(c, u) = "error" => stop_following_store(c, u) = Store
        /\ \A f \in SignupForms :
              profile_outcome(c, f, TRUE) = "error" => profile_store(c, f, TRUE) = Store

\* C24: a username or an e-mail address that is already stored for another
\* user makes signup and profile alike answer with the form again; the
\* violation of the unique constraint never leaves the handler as an
\* exception.
C24_DuplicateCaught ==
    \A c \in Clients, f \in SignupForms :
        /\ (\E u \in DOMAIN users : users[u].username = f.username \/ users[u].email = f.email)
           => signup_outcome(f) = "form"
        /\ (/\ add_user_to_g(c) # None
            /\ users[add_user_to_g(c)].password = <<"bcrypt", f.password>>
            /\ \E u \in DOMAIN users \ {add_user_to_g(c)} :
                  users[u].username = f.username \/ users[u].email = f.email)
           => (/\ profile_outcome(c, f, TRUE) = "form"
               /\ profile_store(c, f, TRUE) = Store)

\* C25: a request that names a user or a message by an id nobody has is
\* answered with the not-found page and leaves the tables as they are, for
\* every route that looks the id up.
C25_UnknownIdNotFound ==
    \A c \in Clients :
        /\ \A u \in UserIds \ DOMAIN users :
              /\ users_show_outcome(c, u) = "not_found"
              /\ add_user_to_g(c) # None =>
                    /\ users_likes_outcome(c, u) = "not_found"
                    /\ show_following_outcome(c, u) = "not_found"
                    /\ users_followers_outcome(c, u) = "not_found"
                    /\ add_follow_outcome(c, u) = "not_found"
                    /\ add_follow_store(c, u) = Store
                    /\ stop_following_outcome(c, u) = "not_found"
                    /\ stop_following_store(c, u) = Store
        /\ \A m \in MessageIds \ DOMAIN messages :
              /\ messages_show_outcomes(c, m) = {"not_found"}
              /\ add_user_to_g(c) # None =>
                    /\ messages_destroy_outcome(c, m) = "not_found"
                    /\ messages_destroy_store(c, m) = Store
                    /\ toggle_like_outcome(c, m) = "not_found"
                    /\ toggle_like_store(c, m) = Store

\* C26: for a logged-in viewer and a stored user u, the likes page of u
\* lists exactly the messages u has liked, whoever the viewer is.
C26_LikesViewOfUser ==
    \A c \in Clients, u \in DOMAIN users :
        add_user_to_g(c) # None =>
            (/\ users_likes_outcome(c, u) = "ok"
             /\ \A ms \in users_likes_messages(c, u) : Range(ms) = user_likes(u))

\* C27: a message posted through messages_add carries the clock value of the
\* moment it is created, so a message created at a later clock value of the
\* same process carries a strictly later timestamp.
C27_TimestampIsNow ==
    \A c \in Clients, textlen \in TextLens :
        messages_add_outcome(c, textlen) = "redirect" =>
            messages_add_store(c, textlen).messages[nextMsgId].timestamp = now

\* C28: the feed, the profile message list of a user and the liked-messages
\* list are each ordered newest first (timestamps never increase along the
\* list) and each has at most 100 entries, however many messages, follows and
\* likes are stored.
C28_ListsNewestFirstCapped ==
    LET NewestFirst(ms) ==
            \A i \in 1..(Len(ms) - 1) :
                messages[ms[i]].timestamp >= messages[ms[i + 1]].timestamp
        Listed(ms) == Len(ms) <= FeedLimit /\ NewestFirst(ms)
    IN /\ \A c \in Clients : \A ms \in feeds_for(c) : Listed(ms)
       /\ \A u \in DOMAIN users : \A ms \in users_show_messages(u) : Listed(ms)
       /\ \A c \in Clients, u \in DOMAIN users :
              users_likes_outcome(c, u) = "ok" =>
                  \A ms \in users_likes_messages(c, u) : Listed(ms)

\* more than 100 messages are stored, the oldest of them share a timestamp,
\* and each of the three lists shows 100 messages, the first newer than the
\* last; which of the oldest messages is left out depends on the engine
C28_Witness ==
    LET Full(ms) == /\ Len(ms) = FeedLimit
                    /\ messages[ms[1]].timestamp > messages[ms[FeedLimit]].timestamp
    IN /\ Cardinality(DOMAIN messages) > FeedLimit
       /\ \A ms \in users_show_messages(1) : Full(ms)
       /\ \E a, b \in users_show_messages(1) : Range(a) # Range(b)
       /\ \E c \in Clients :
              /\ \A ms \in feeds_for(c) : Full(ms)
              /\ users_likes_outcome(c, 1) = "ok"
              /\ \A ms \in users_likes_messages(c, 1) : Full(ms)

\* C29: a request is treated as Authenticated(u) only for a stored user u: a
\* session that carries the id of a deleted user is resolved to Anonymous,
\* and every gated operation sent with it is refused and changes nothing.
C29_StaleSessionRefused ==
    \A c \in Clients :
        /\ add_user_to_g(c) # None => add_user_to_g(c) \in DOMAIN users
        /\ (session[c] # None /\ session[c] \notin DOMAIN users) =>
              /\ add_user_to_g(c) = None
              /\ delete_user_outcome(c) = "unauthorized"
              /\ delete_user_store(c) = Store
              /\ \A textlen \in TextLens :
                    /\ messages_add_outcome(c, textlen) = "unauthorized"
                    /\ messages_add_store(c, textlen) = Store
              /\ \A m \in MessageIds :
                    /\ messages_destroy_outcome(c, m) = "unauthorized"
                    /\ messages_destroy_store(c, m) = Store
                    /\ toggle_like_outcome(c, m) = "unauthorized"
                    /\ toggle_like_store(c, m) = Store
              /\ \A u \in UserIds :
                    /\ add_follow_outcome(c, u) = "unauthorized"
                    /\ add_follow_store(c, u) = Store
                    /\ stop_following_outcome(c, u) = "unauthorized"
                    /\ stop_following_store(c, u) = Store
                    /\ show_following_outcome(c, u) = "unauthorized"
                    /\ users_followers_outcome(c, u) = "unauthorized"
              /\ \A u \in DOMAIN users : users_likes_outcome(c, u) = "unauthorized"
              /\ \A k \in Names, p \in Passwords, valid \in BOOLEAN :
                    /\ profile_outcome(c, [username |-> k, email |-> k, password |-> p], valid)
                           = "unauthorized"
                    /\ profile_store(c, [username |-> k, email |-> k, password |-> p], valid)
                           = Store
====
